---- MODULE Spec2Model ----
(***************************************************************************)
(* TablesToHtml: the FastAPI application of main.py over the tables of     *)
(* models.py.  Two request slots run the handlers read_home (GET /) and    *)
(* fetch_data (POST /fetch-data) as suspendable tasks; a task gives up the *)
(* event loop at each awaited database call, so the steps of two requests  *)
(* interleave there.  The tables mtgs and races live in one MySQL/InnoDB   *)
(* database; every request has its own session, hence its own             *)
(* transaction.                                                            *)
(***************************************************************************)
EXTENDS Integers, Sequences, FiniteSets, TLC

VARIABLES
    mtgs,       \* committed rows of table "mtgs", in insertion (mtgsid) order
    races,      \* committed rows of table "races", in insertion (racesid) order
    pc,         \* per request slot: the await the handler is suspended at
    data,       \* per slot: the parsed body get_mtgsracesData returned
    existing,   \* per slot: existing_meet_codes
    txn,        \* per slot: rows inserted by the session and not yet committed
    resp,       \* per slot: the response the handler returned
    route,      \* per slot: the route of the request being handled
    last        \* history: the latest import that ran to the handler's own end

vars == <<mtgs, races, pc, data, existing, txn, resp, route, last>>

\* ------------------------------------------------------------------ bounds

\* Races a remote meeting lists, when it lists any.
MaxRaces == 2

\* Request slots: the requests that can be in flight at once.
Reqs == {"a", "b"}

\* Meeting codes the remote service may report.
Codes == {"M1", "M2"}

\* Most meetings one response lists: one per code, or one code repeated.
MaxMtgs == Cardinality(Codes)

\* ------------------------------------------------------------ remote data

None == [kind |-> "none"]

DateOf(c) == IF c = "M1" THEN "2024-11-02" ELSE "2024-11-01"

DistanceOf(n) == IF n = 1 THEN "1200" ELSE IF n = 2 THEN "1400" ELSE "1600"

RemoteRace(n) == [raceNumber |-> n, distance |-> DistanceOf(n)]

\* A meeting comes with no race yet or with its full card.
RaceLists == {[i \in 1..n |-> RemoteRace(i)] : n \in {0, MaxRaces}}

RemoteMtgs ==
    {[meetCode |-> c, date |-> DateOf(c), meetUrl |-> "http://x",
      venueAbbr |-> "ABC", races |-> rs] : c \in Codes, rs \in RaceLists}

SeqsUpTo(S, n) == UNION {[1..k -> S] : k \in 0..n}

\* The bodies json.loads can hand back: null, {}, a body with an "errors"
\* key, a body without "data", and a body that lists meetings.
Responses ==
    {[kind |-> k, errors |-> "", meetings |-> <<>>] : k \in {"null", "empty", "nodata"}}
    \cup {[kind |-> "errors", errors |-> "E1", meetings |-> <<>>]}
    \cup {[kind |-> "data", errors |-> "", meetings |-> ms] :
             ms \in SeqsUpTo(RemoteMtgs, MaxMtgs)}

\* `not data`
IsFalsy(R) == R.kind \in {"null", "empty"}

\* Mutant: the body is searched for a key the remote service never sends.
HasErrorsWrongKey(R) == R.kind = "error"

\* `"errors" in data`; on null the membership test itself raises TypeError.
HasErrors(R) == R.kind = "errors"

\* ------------------------------------------------------------- responses

\* Mutant: the exception is not caught and the server answers 500.
ErrorPageUnhandled(msg) ==
    [kind |-> "error", status |-> 500, mtgs |-> <<>>, error |-> msg]

\* lines 48, 58, 94: home.html with "mtgs": [] and "error"
ErrorPage(msg) == [kind |-> "home", status |-> 200, mtgs |-> <<>>, error |-> msg]

\* line 46: home.html with the meetings and no "error"
HomePage(ms) == [kind |-> "home", status |-> 200, mtgs |-> ms, error |-> <<>>]

\* line 91
Redirect == [kind |-> "redirect", status |-> 303, mtgs |-> <<>>, error |-> <<>>]

\* error_message of lines 55-57
FetchErrorMessage(R) ==
    IF HasErrors(R) THEN <<"Failed to fetch data.", " Errors: ", R.errors>>
    ELSE <<"Failed to fetch data.">>

\* -------------------------------------------------------------- database

EmptyTxn == [mtgs |-> <<>>, races |-> <<>>]

Range(s) == {s[i] : i \in 1..Len(s)}

CodesOf(rows) == {rows[i].meetCode : i \in 1..Len(rows)}

RECURSIVE RowsOf(_, _)
\* rows of s whose meetCode is c, in order
RowsOf(s, c) ==
    IF s = <<>> THEN <<>>
    ELSE IF Head(s).meetCode = c THEN <<Head(s)>> \o RowsOf(Tail(s), c)
    ELSE RowsOf(Tail(s), c)

\* Mutant: the column is declared without unique=True.
UniqueOkNoIndex(rows, stored) == TRUE

\* unique=True on Mtgs.meetCode: a multi-row insert is refused when two of
\* its rows, or one of its rows and a stored row, carry the same code.
UniqueOk(rows, stored) ==
    /\ \A i, j \in 1..Len(rows) : rows[i].meetCode = rows[j].meetCode => i = j
    /\ CodesOf(rows) \cap CodesOf(stored) = {}

\* ForeignKey("mtgs.meetCode") on Races.meetCode, as the inserting session
\* sees table mtgs: the committed rows and its own uncommitted ones.
ForeignKeyOk(rows, visible) == CodesOf(rows) \subseteq CodesOf(visible)

\* Mutant: an insert never waits for another transaction's index entry.
LockedByNobody(others) == {}

\* Codes whose unique-index entry another open transaction holds.
LockedBy(others) == UNION {CodesOf(txn[o].mtgs) : o \in others}

\* ---------------------------------------------------------- fetch_data

\* Mutant: the date and the URL of a staged meeting are taken from each
\* other's key.
RECURSIVE StageMtgsSwapped(_, _)
StageMtgsSwapped(ms, known) ==
    IF ms = <<>> THEN <<>>
    ELSE IF Head(ms).meetCode \notin known
         THEN <<[meetCode |-> Head(ms).meetCode, date |-> Head(ms).meetUrl,
                 meetUrl |-> Head(ms).date, venueAbbr |-> Head(ms).venueAbbr]>>
              \o StageMtgsSwapped(Tail(ms), known)
         ELSE StageMtgsSwapped(Tail(ms), known)

\* lines 68-75: mtgs_data
RECURSIVE StageMtgs(_, _)
StageMtgs(ms, known) ==
    IF ms = <<>> THEN <<>>
    ELSE IF Head(ms).meetCode \notin known
         THEN <<[meetCode |-> Head(ms).meetCode, date |-> Head(ms).date,
                 meetUrl |-> Head(ms).meetUrl, venueAbbr |-> Head(ms).venueAbbr]>>
              \o StageMtgs(Tail(ms), known)
         ELSE StageMtgs(Tail(ms), known)

\* lines 76-81: the race rows of one meeting
RacesOf(m) ==
    [i \in 1..Len(m.races) |->
        [meetCode |-> m.meetCode, raceNum |-> m.races[i].raceNumber,
         distance |-> m.races[i].distance]]

\* Mutant: the races loop is outside the `not in existing_meet_codes` test.
RECURSIVE StageRacesAll(_, _)
StageRacesAll(ms, known) ==
    IF ms = <<>> THEN <<>>
    ELSE RacesOf(Head(ms)) \o StageRacesAll(Tail(ms), known)

\* Mutant: the races are staged for the meetings that are stored.
RECURSIVE StageRacesKnown(_, _)
StageRacesKnown(ms, known) ==
    IF ms = <<>> THEN <<>>
    ELSE IF Head(ms).meetCode \in known
         THEN RacesOf(Head(ms)) \o StageRacesKnown(Tail(ms), known)
         ELSE StageRacesKnown(Tail(ms), known)

\* lines 68-81: races_data
RECURSIVE StageRaces(_, _)
StageRaces(ms, known) ==
    IF ms = <<>> THEN <<>>
    ELSE IF Head(ms).meetCode \notin known
         THEN RacesOf(Head(ms)) \o StageRaces(Tail(ms), known)
         ELSE StageRaces(Tail(ms), known)

mtgs_data(r) == StageMtgs(data[r].meetings, existing[r])

races_data(r) == StageRaces(data[r].meetings, existing[r])

\* Mutant: the races are inserted before the meetings.
AfterStagingRacesFirst(md, rd) ==
    IF rd # <<>> THEN "insert_races" ELSE IF md # <<>> THEN "insert_mtgs" ELSE "commit"

\* Mutant: the meetings insert is not guarded by `if mtgs_data`.
AfterStagingUnguarded(md, rd) == "insert_mtgs"

\* lines 84-88: the next awaited call once both lists are staged
AfterStaging(md, rd) ==
    IF md # <<>> THEN "insert_mtgs" ELSE IF rd # <<>> THEN "insert_races" ELSE "commit"

AfterInsertMtgs(rd) == IF rd # <<>> THEN "insert_races" ELSE "commit"

\* The handler returns `page`; leaving get_db closes the session, which
\* rolls back whatever the transaction had not committed.
Finish(r, page) ==
    /\ pc' = [pc EXCEPT ![r] = "done"]
    /\ resp' = [resp EXCEPT ![r] = page]
    /\ txn' = [txn EXCEPT ![r] = EmptyTxn]

\* ----------------------------------------------------------- read_home

DateRank(d) == IF d = "2024-11-01" THEN 1 ELSE 2

CodeRank(c) == IF c = "M1" THEN 1 ELSE 2

\* order_by(Mtgs.date, Mtgs.meetCode)
MtgBefore(x, y) ==
    \/ DateRank(x.date) < DateRank(y.date)
    \/ DateRank(x.date) = DateRank(y.date) /\ CodeRank(x.meetCode) <= CodeRank(y.meetCode)

\* order_by="Races.raceNum"
RaceBefore(x, y) == x.raceNum <= y.raceNum

RECURSIVE SortMtgs(_)
SortMtgs(s) ==
    IF s = <<>> THEN <<>>
    ELSE LET h == Head(s)
             rest == SortMtgs(Tail(s))
         IN SelectSeq(rest, LAMBDA x : ~MtgBefore(h, x)) \o <<h>>
            \o SelectSeq(rest, LAMBDA x : MtgBefore(h, x))

RECURSIVE SortRaces(_)
SortRaces(s) ==
    IF s = <<>> THEN <<>>
    ELSE LET h == Head(s)
             rest == SortRaces(Tail(s))
         IN SelectSeq(rest, LAMBDA x : ~RaceBefore(h, x)) \o <<h>>
            \o SelectSeq(rest, LAMBDA x : RaceBefore(h, x))

\* lines 33-44: every meeting with its races, every race with its horses
\* (no handler stores a horse, so the list is the default [])
LoadMtgs(ms, rs) ==
    LET sorted == SortMtgs(ms)
    IN [i \in 1..Len(sorted) |->
          [meetCode |-> sorted[i].meetCode, date |-> sorted[i].date,
           meetUrl |-> sorted[i].meetUrl, venueAbbr |-> sorted[i].venueAbbr,
           races |-> LET own == SortRaces(RowsOf(rs, sorted[i].meetCode))
                     IN [j \in 1..Len(own) |->
                           [raceNum |-> own[j].raceNum, distance |-> own[j].distance,
                            horses |-> <<>>]]]]

\* ---------------------------------------------------------------- state

Init ==
    /\ mtgs = <<>>
    /\ races = <<>>
    /\ pc = [r \in Reqs |-> "idle"]
    /\ data = [r \in Reqs |-> None]
    /\ existing = [r \in Reqs |-> {}]
    /\ txn = [r \in Reqs |-> EmptyTxn]
    /\ resp = [r \in Reqs |-> None]
    /\ route = [r \in Reqs |-> "none"]
    /\ last = [body |-> None, mtgs |-> <<>>, races |-> <<>>, again |-> FALSE]

\* lines 31-46: GET /, the query answered
ReadHome(r) ==
    /\ pc[r] = "idle"
    /\ route' = [route EXCEPT ![r] = "/"]
    /\ Finish(r, HomePage(LoadMtgs(mtgs, races)))
    /\ UNCHANGED <<mtgs, races, data, existing>>

\* lines 47-48: GET /, the query raising
ReadHomeFails(r) ==
    /\ pc[r] = "idle"
    /\ route' = [route EXCEPT ![r] = "/"]
    /\ Finish(r, ErrorPage(<<"OperationalError", "select">>))
    /\ UNCHANGED <<mtgs, races, data, existing>>

\* lines 53-58: POST /fetch-data, the remote call returned a body
Fetch(r) ==
    /\ pc[r] = "idle"
    /\ route' = [route EXCEPT ![r] = "/fetch-data"]
    /\ \E R \in Responses :
        /\ data' = [data EXCEPT ![r] = R]
        /\ IF R.kind = "null"
           THEN Finish(r, ErrorPage(<<"argument of type 'NoneType' is not iterable">>))
           ELSE IF IsFalsy(R) \/ HasErrors(R)
           THEN Finish(r, ErrorPage(FetchErrorMessage(R)))
           ELSE /\ pc' = [pc EXCEPT ![r] = "select"]
                /\ UNCHANGED <<resp, txn>>
    /\ UNCHANGED <<mtgs, races, existing>>

\* lines 109-112 raising (no connection, a body that is not JSON), caught at 93
FetchRaises(r) ==
    /\ pc[r] = "idle"
    /\ route' = [route EXCEPT ![r] = "/fetch-data"]
    /\ Finish(r, ErrorPage(<<"fetch failed">>))
    /\ UNCHANGED <<mtgs, races, data, existing>>

\* lines 61-81: the select of the stored codes, then the staging loop
SelectCodes(r) ==
    /\ pc[r] = "select"
    /\ existing' = [existing EXCEPT ![r] = CodesOf(mtgs)]
    /\ IF data[r].kind = "nodata"
       THEN Finish(r, ErrorPage(<<"'data'">>))
       ELSE /\ pc' = [pc EXCEPT ![r] =
                        AfterStaging(StageMtgs(data[r].meetings, CodesOf(mtgs)),
                                     StageRaces(data[r].meetings, CodesOf(mtgs)))]
            /\ UNCHANGED <<resp, txn>>
    /\ UNCHANGED <<mtgs, races, data, route>>

\* Mutant: the session runs in autocommit, so the meetings are stored by
\* the insert itself.
InsertMtgsAutocommit(r) ==
    /\ pc[r] = "insert_mtgs"
    /\ IF UniqueOk(mtgs_data(r), mtgs)
       THEN /\ mtgs' = mtgs \o mtgs_data(r)
            /\ pc' = [pc EXCEPT ![r] = AfterInsertMtgs(races_data(r))]
            /\ UNCHANGED <<resp, txn>>
       ELSE /\ Finish(r, ErrorPage(<<"IntegrityError", "insert_mtgs">>))
            /\ UNCHANGED mtgs
    /\ UNCHANGED <<races, data, existing, route>>

\* line 85: insert(Mtgs).values(mtgs_data); it waits while another open
\* transaction holds one of the codes, and is refused on a duplicate.
InsertMtgs(r) ==
    /\ pc[r] = "insert_mtgs"
    /\ CodesOf(mtgs_data(r)) \cap LockedBy(Reqs \ {r}) = {}
    /\ IF UniqueOk(mtgs_data(r), mtgs)
       THEN /\ txn' = [txn EXCEPT ![r].mtgs = mtgs_data(r)]
            /\ pc' = [pc EXCEPT ![r] = AfterInsertMtgs(races_data(r))]
            /\ UNCHANGED resp
       ELSE Finish(r, ErrorPage(<<"IntegrityError", "insert_mtgs">>))
    /\ UNCHANGED <<mtgs, races, data, existing, route>>

\* line 87: insert(Races).values(races_data)
InsertRaces(r) ==
    /\ pc[r] = "insert_races"
    /\ IF ForeignKeyOk(races_data(r), mtgs \o txn[r].mtgs)
       THEN /\ txn' = [txn EXCEPT ![r].races = races_data(r)]
            /\ pc' = [pc EXCEPT ![r] = "commit"]
            /\ UNCHANGED resp
       ELSE Finish(r, ErrorPage(<<"IntegrityError", "insert_races">>))
    /\ UNCHANGED <<mtgs, races, data, existing, route>>

\* lines 88-91: commit, then the redirect
Commit(r) ==
    /\ pc[r] = "commit"
    /\ mtgs' = mtgs \o txn[r].mtgs
    /\ races' = races \o txn[r].races
    /\ Finish(r, Redirect)
    /\ UNCHANGED <<data, existing, route>>

\* an awaited database call of fetch_data raising for a reason of the
\* database's own (connection lost, lock wait timeout), caught at line 93;
\* str(e) of the driver's error names the statement that failed
DbError(r) ==
    /\ pc[r] \in {"select", "insert_mtgs", "insert_races", "commit"}
    /\ Finish(r, ErrorPage(<<"OperationalError", pc[r]>>))
    /\ UNCHANGED <<mtgs, races, data, existing, route>>

\* the response has been sent; the slot takes the next request
Return(r) ==
    /\ pc[r] = "done"
    /\ pc' = [pc EXCEPT ![r] = "idle"]
    /\ data' = [data EXCEPT ![r] = None]
    /\ existing' = [existing EXCEPT ![r] = {}]
    /\ resp' = [resp EXCEPT ![r] = None]
    /\ route' = [route EXCEPT ![r] = "none"]
    /\ UNCHANGED <<mtgs, races, txn>>

\* Requests in flight at once, their steps interleaving at the awaits.
Next ==
    \E r \in Reqs :
        \/ ReadHome(r) /\ UNCHANGED last
        \/ ReadHomeFails(r) /\ UNCHANGED last
        \/ Fetch(r) /\ UNCHANGED last
        \/ FetchRaises(r) /\ UNCHANGED last
        \/ SelectCodes(r) /\ UNCHANGED last
        \/ InsertMtgs(r) /\ UNCHANGED last
        \/ InsertRaces(r) /\ UNCHANGED last
        \/ Commit(r) /\ UNCHANGED last
        \/ DbError(r) /\ UNCHANGED last
        \/ Return(r) /\ UNCHANGED last

Spec == Init /\ [][Next]_vars

\* ------------------------------------------------------- one at a time

\* The slot that serves the requests when they arrive one after another.
SerialReq == "a"

\* The failure came from outside the handler: the remote call or the
\* database gave out.
Outage(page) ==
    /\ page.error # <<>>
    /\ Head(page.error) \in {"OperationalError", "fetch failed"}

\* History of the imports: what the latest import that ended by the
\* handler's own decision had fetched, and the tables it left behind.
Track(r) ==
    last' = IF /\ pc[r] # "done" /\ pc'[r] = "done"
               /\ route'[r] = "/fetch-data" /\ ~Outage(resp'[r])
            THEN [body |-> data'[r], mtgs |-> mtgs', races |-> races',
                  again |-> last.body = data'[r]]
            ELSE last

NextSerial ==
    \/ ReadHome(SerialReq) /\ Track(SerialReq)
    \/ ReadHomeFails(SerialReq) /\ Track(SerialReq)
    \/ Fetch(SerialReq) /\ Track(SerialReq)
    \/ FetchRaises(SerialReq) /\ Track(SerialReq)
    \/ SelectCodes(SerialReq) /\ Track(SerialReq)
    \/ InsertMtgs(SerialReq) /\ Track(SerialReq)
    \/ InsertRaces(SerialReq) /\ Track(SerialReq)
    \/ Commit(SerialReq) /\ Track(SerialReq)
    \/ DbError(SerialReq) /\ Track(SerialReq)
    \/ Return(SerialReq) /\ Track(SerialReq)

SpecSerial == Init /\ [][NextSerial]_vars

\* =================================================================
\* Properties
\* =================================================================

Imports == {r \in Reqs : route[r] = "/fetch-data"}

\* The slots whose import returns its response in this step.
Ending == {r \in Reqs : pc[r] # "done" /\ pc'[r] = "done" /\ route'[r] = "/fetch-data"}

NoDuplicateCode(rows) ==
    \A i, j \in 1..Len(rows) : rows[i].meetCode = rows[j].meetCode => i = j

IsPrefix(s, t) == Len(s) <= Len(t) /\ SubSeq(t, 1, Len(s)) = s

\* C1: importing a body and then importing the same body again leaves the
\* meeting rows and the race rows as the first import left them.  Checked
\* over requests served one after another; an import that ended in an
\* outage of the remote service or the database does not count as a run.
C1_IdempotentRefetch ==
    [][\A r \in Ending :
          data'[r] = last.body => mtgs' = last.mtgs /\ races' = last.races]_vars

\* A body with a meeting and a race was imported twice in a row, the second
\* import ending in the redirect.
C1_Witness ==
    /\ last.again
    /\ last.body.kind = "data"
    /\ pc[SerialReq] = "done"
    /\ resp[SerialReq] = Redirect
    /\ data[SerialReq] = last.body
    /\ CodesOf(last.body.meetings) \subseteq CodesOf(mtgs)
    /\ races # <<>>

\* C2: a fetched body that is empty or has an "errors" key ends the request
\* at once: the request never reaches the select, an insert or the commit,
\* holds no uncommitted row, leaves both tables as they were, and answers
\* with the home page, an empty meeting list and the error message, which
\* quotes the remote errors when there are any.
C2_AbortBeforeWrite ==
    /\ [](\A r \in Imports :
            data[r].kind \in {"null", "empty", "errors"} =>
                /\ pc[r] = "done"
                /\ txn[r] = EmptyTxn
                /\ existing[r] = {}
                /\ resp[r].kind = "home"
                /\ resp[r].mtgs = <<>>
                /\ resp[r].error # <<>>
                /\ data[r].kind = "empty" =>
                      resp[r].error = <<"Failed to fetch data.">>
                /\ data[r].kind = "errors" =>
                      /\ Head(resp[r].error) = "Failed to fetch data."
                      /\ data[r].errors \in Range(resp[r].error))
    /\ [][\A r \in Ending :
            data'[r].kind \in {"null", "empty", "errors"} =>
                mtgs' = mtgs /\ races' = races]_vars

\* An "errors" body was answered with the error page while rows are stored.
C2_Witness ==
    \E r \in Imports :
        /\ pc[r] = "done"
        /\ data[r].kind = "errors"
        /\ resp[r] = ErrorPage(<<"Failed to fetch data.", " Errors: ", "E1">>)
        /\ mtgs # <<>>
        /\ races # <<>>

\* C3: an import is all or nothing.  The tables change only in the step in
\* which an import ends with the redirect, and then by all of its staged
\* meetings and all of its staged races; an import that ends with an error
\* leaves the tables as they were, keeps no uncommitted row and reports the
\* exception's message.
C3_AllOrNothing ==
    [][/\ (mtgs' # mtgs \/ races' # races) => \E r \in Ending : resp'[r] = Redirect
       /\ \A r \in Ending :
            \/ /\ resp'[r] = Redirect
               /\ mtgs' = mtgs \o mtgs_data(r)
               /\ races' = races \o races_data(r)
            \/ /\ resp'[r].kind = "home"
               /\ resp'[r].error # <<>>
               /\ mtgs' = mtgs
               /\ races' = races
       /\ \A r \in Reqs : pc'[r] = "done" => txn'[r] = EmptyTxn]_vars

\* An import whose races insert failed after its meetings insert had run:
\* none of its staged meetings is stored.
C3_Witness ==
    \E r \in Imports :
        /\ pc[r] = "done"
        /\ resp[r] = ErrorPage(<<"OperationalError", "insert_races">>)
        /\ mtgs_data(r) # <<>>
        /\ races_data(r) # <<>>
        /\ CodesOf(mtgs_data(r)) \cap CodesOf(mtgs) = {}
        /\ mtgs # <<>>

\* C4: no two stored meeting rows have the same code.
C4_UniqueMeetCode == NoDuplicateCode(mtgs)

\* Two interleaved imports loaded the same stored codes and staged the same
\* new code; one committed and the other was refused.  The refused one had
\* listed that code more than once or lost to the other.
C4_Witness ==
    \E r, o \in Imports :
        /\ r # o
        /\ pc[r] = "done" /\ pc[o] = "done"
        /\ resp[r] = Redirect
        /\ resp[o] = ErrorPage(<<"IntegrityError", "insert_mtgs">>)
        /\ existing[r] = existing[o]
        /\ CodesOf(mtgs_data(r)) \cap CodesOf(mtgs_data(o)) # {}

\* C5: every stored race row carries the code of a stored meeting row; every
\* uncommitted race row carries the code of a meeting row its transaction
\* sees; and a request is at the races insert only with all of its staged
\* meetings inserted.
C5_RacesReferenceMeetings ==
    /\ CodesOf(races) \subseteq CodesOf(mtgs)
    /\ \A r \in Reqs :
        /\ CodesOf(txn[r].races) \subseteq CodesOf(mtgs) \cup CodesOf(txn[r].mtgs)
        /\ pc[r] = "insert_races" => mtgs_data(r) # <<>> /\ txn[r].mtgs = mtgs_data(r)
        /\ txn[r].races # <<>> => txn[r].mtgs = mtgs_data(r)

\* A transaction holds its meetings and its races, about to commit, while
\* races of an earlier import are stored.
C5_Witness ==
    \E r \in Imports :
        /\ pc[r] = "commit"
        /\ txn[r].mtgs # <<>>
        /\ txn[r].races # <<>>
        /\ races # <<>>

\* C6: when an import ends with the redirect, each remote meeting whose
\* code was not among the loaded codes has exactly one meeting row, with
\* the remote code, date, URL and venue, and exactly the race rows the body
\* lists for it, each with that code, the remote race number and distance;
\* the rows of every other code are as they were.
C6_ExactImport ==
    [][\A r \in Ending :
          resp'[r] = Redirect =>
            LET ms == data[r].meetings
                new == {ms[i].meetCode : i \in 1..Len(ms)} \ existing[r]
            IN /\ \A i \in 1..Len(ms) :
                    ms[i].meetCode \in new =>
                      /\ RowsOf(mtgs', ms[i].meetCode) =
                            <<[meetCode |-> ms[i].meetCode, date |-> ms[i].date,
                               meetUrl |-> ms[i].meetUrl,
                               venueAbbr |-> ms[i].venueAbbr]>>
                      /\ RowsOf(races', ms[i].meetCode) =
                            [j \in 1..Len(ms[i].races) |->
                               [meetCode |-> ms[i].meetCode,
                                raceNum |-> ms[i].races[j].raceNumber,
                                distance |-> ms[i].races[j].distance]]
               /\ \A c \in (CodesOf(mtgs') \cup CodesOf(races')) \ new :
                    /\ RowsOf(mtgs', c) = RowsOf(mtgs, c)
                    /\ RowsOf(races', c) = RowsOf(races, c)]_vars

\* An import of a body listing a stored meeting and a new one with a race
\* ended with the redirect.
C6_Witness ==
    \E r \in Imports :
        /\ pc[r] = "done"
        /\ resp[r] = Redirect
        /\ Len(data[r].meetings) = 2
        /\ existing[r] # {}
        /\ mtgs_data(r) # <<>>
        /\ races_data(r) # <<>>

\* Every code the body lists was among the codes the request loaded.
NothingNew(r) ==
    /\ data[r].kind = "data"
    /\ pc[r] \in {"insert_mtgs", "insert_races", "commit", "done"}
    /\ CodesOf(data[r].meetings) \subseteq existing[r]

\* C7: an import whose body lists no code that is not stored is never at an
\* insert, holds no uncommitted row, leaves both tables as they were, and
\* ends with the 303 redirect unless the database gives out.
C7_NothingNewStillRedirects ==
    /\ [](\A r \in Imports :
            NothingNew(r) =>
                /\ pc[r] \in {"commit", "done"}
                /\ txn[r] = EmptyTxn
                /\ pc[r] = "done" =>
                      \/ resp[r] = Redirect /\ resp[r].status = 303
                      \/ resp[r] \in {ErrorPage(<<"OperationalError", "select">>),
                                      ErrorPage(<<"OperationalError", "commit">>)})
    /\ [][\A r \in Ending : NothingNew(r) => mtgs' = mtgs /\ races' = races]_vars

\* A body listing one stored meeting was imported and answered with the
\* redirect.
C7_Witness ==
    \E r \in Imports :
        /\ pc[r] = "done"
        /\ resp[r] = Redirect
        /\ data[r].meetings # <<>>
        /\ existing[r] # {}
        /\ NothingNew(r)

InFlight(r) == pc[r] \in {"insert_mtgs", "insert_races", "commit"}

\* C8 as stated: while one import is between its load of the stored codes
\* and its commit or failure, the other import takes no step of its own
\* (load, staging, insert, commit).
C8_NoInterleaving ==
    [][\A r, o \in Imports :
          (r # o /\ InFlight(o)) =>
              ~(pc[r] \in {"select", "insert_mtgs", "insert_races", "commit"}
                /\ pc'[r] # pc[r])]_vars

\* C8 as amended: imports in flight together do interleave; two of them
\* never both hold an uncommitted meeting row of the same code, and of two
\* that staged the same new code not both end with the redirect.
C8_ConflictingImportsExclude ==
    \A r, o \in Imports :
        r # o =>
            /\ CodesOf(txn[r].mtgs) \cap CodesOf(txn[o].mtgs) = {}
            /\ (pc[r] = "done" /\ pc[o] = "done"
                /\ resp[r] = Redirect /\ resp[o] = Redirect)
               => CodesOf(mtgs_data(r)) \cap CodesOf(mtgs_data(o)) = {}

\* Both imports are past their load; one holds an uncommitted meeting and
\* the other, which staged the same code, is about to insert it.
C8_Witness ==
    \E r, o \in Imports :
        /\ r # o
        /\ pc[r] = "commit"
        /\ txn[r].mtgs # <<>>
        /\ pc[o] = "insert_mtgs"
        /\ CodesOf(mtgs_data(o)) \cap CodesOf(txn[r].mtgs) # {}

\* C9: every request that has ended has a rendered response.  GET / gives
\* the home page, with an empty meeting list and an error message when the
\* query failed.  POST /fetch-data gives either that error page or the 303
\* redirect, and the redirect only with every staged row stored.
C9_EveryRequestRendered ==
    \A r \in Reqs :
        /\ pc[r] = "done" <=> resp[r] # None
        /\ pc[r] = "done" =>
            /\ resp[r].kind \in {"home", "redirect"}
            /\ resp[r].kind = "home" =>
                /\ resp[r].status = 200
                /\ resp[r].error # <<>> => resp[r].mtgs = <<>>
                /\ resp[r].error = <<>> => route[r] = "/"
            /\ resp[r].kind = "redirect" =>
                /\ resp[r].status = 303
                /\ route[r] = "/fetch-data"
                /\ data[r].kind = "data"
                /\ Range(mtgs_data(r)) \subseteq Range(mtgs)
                /\ Range(races_data(r)) \subseteq Range(races)

\* With rows stored, a GET / whose query failed shows the empty error page
\* while an import that was refused shows its own.
C9_Witness ==
    \E r, o \in Reqs :
        /\ pc[r] = "done" /\ route[r] = "/"
        /\ resp[r] = ErrorPage(<<"OperationalError", "select">>)
        /\ pc[o] = "done" /\ route[o] = "/fetch-data"
        /\ resp[o] = ErrorPage(<<"IntegrityError", "insert_mtgs">>)
        /\ mtgs # <<>>

\* C10: no step updates or deletes a stored row, and no step adds a meeting
\* row or a race row for a code that is already stored.
C10_StoredRowsUntouched ==
    [][\/ mtgs' = mtgs /\ races' = races
       \/ /\ IsPrefix(mtgs, mtgs')
          /\ IsPrefix(races, races')
          /\ \A c \in CodesOf(mtgs) :
               /\ RowsOf(mtgs', c) = RowsOf(mtgs, c)
               /\ RowsOf(races', c) = RowsOf(races, c)]_vars

\* An import of a body that lists, for a stored code, races other than the
\* stored ones ended with the redirect, and the stored races are still the
\* old ones.
C10_Witness ==
    \E r \in Imports :
        /\ pc[r] = "done"
        /\ resp[r] = Redirect
        /\ \E i \in 1..Len(data[r].meetings) :
            /\ data[r].meetings[i].meetCode \in existing[r]
            /\ RacesOf(data[r].meetings[i]) # RowsOf(races, data[r].meetings[i].meetCode)

====
